---- MODULE Spec2Model ----
(***************************************************************************)
(* Phaser.Clock (src/src/time/Clock.js): a per-frame virtual clock that    *)
(* accumulates scaled elapsed time and forwards each tick to one built-in  *)
(* Phaser.Timer (events) and to the timers made with create().             *)
(*                                                                         *)
(* Phaser.Timer itself is not part of Clock.js.  A timer is an object      *)
(* handle (a number) with a status; what its update() returns is an input  *)
(* of the Clock's update, chosen freely for every call.                    *)
(***************************************************************************)
EXTENDS Integers, Sequences, FiniteSets, TLC

\* ------------------------------------------------------------ bounds
\* How many Phaser.Timer objects create() may allocate in one behaviour.
MaxTimers == 3
\* How many unpaused update() calls may follow one construction or reset.
MaxTicks == 3

\* The elapsed values a frame passes to update(elapsed).
Elapsed == {5, 16}
\* The values the owner writes to the public timeScale field.
TimeScales == {1, 2}
\* The optional autoDestroy argument of create().
AutoDestroyArgs == {"undefined", "true", "false"}

\* ------------------------------------------------------------ state
VARIABLES
    now,        \* this.now
    timeScale,  \* this.timeScale
    paused,     \* this.paused
    events,     \* this.events: handle of the built-in timer
    _timers,    \* this._timers: sequence of timer handles
    _i,         \* this._i: scan cursor, set by update
    _len,       \* this._len: scan limit, set by update
    heap,       \* the Phaser.Timer objects: handle -> status
    seen,       \* <<this.now>> as this.events.update() found it, <<>> if not called
    fresh,      \* timers a managed timer's update() created, not yet updated
    last,       \* the latest call made on the Clock, with its arguments
    calls,      \* the calls the latest operation made on timers, in order
    hist        \* <<elapsed, timeScale>> of the unpaused updates since now was 0

vars == <<now, timeScale, paused, events, _timers, _i, _len, heap, seen, fresh,
          last, calls, hist>>

\* A field no statement has assigned yet.
Undefined == "undefined"

\* The handle the constructor's new Phaser.Timer gets; create() hands out 1, 2, ...
EventsTimer == 0
Handles == 0 .. MaxTimers
Managed == 1 .. MaxTimers

\* ------------------------------------------------------------ Phaser.Timer
\* The status of a handle: "none" before new Phaser.Timer made it, then "live",
\* "finished" once its update() has returned false, "destroyed" after destroy().
NoTimer == "none"
NewTimer == "live"

\* The records of the calls made on timers.
NewCall(t, autoDestroy) == <<"new", t, autoDestroy>>
StartCall(t) == <<"start", t>>
UpdateCall(t, ret) == <<"update", t, ret>>
DestroyCall(t) == <<"destroy", t>>
RemoveAllCall(t) == <<"removeAll", t>>

\* timer.destroy()
Destroyed(h, t) == [h EXCEPT ![t] = "destroyed"]
\* timer.update() returning ret: a timer that returns false has finished.
Updated(h, t, ret) == IF ret \/ h[t] # "live" THEN h ELSE [h EXCEPT ![t] = "finished"]

\* The first handle new Phaser.Timer has not used yet (MaxTimers + 1 when none is left).
NextHandle(h) ==
    IF \E t \in Managed : h[t] = "none"
    THEN CHOOSE t \in Managed : h[t] = "none" /\ \A u \in Managed : u < t => h[u] # "none"
    ELSE MaxTimers + 1

\* ------------------------------------------------------------ constructor
Init ==
    /\ now = 0
    /\ timeScale = 1
    /\ paused = FALSE
    /\ events = EventsTimer
    /\ _timers = <<>>
    /\ _i = Undefined
    /\ _len = Undefined
    /\ heap = [t \in Handles |-> IF t = EventsTimer THEN NewTimer ELSE NoTimer]
    /\ seen = <<>>
    /\ fresh = {}
    /\ last = [name |-> "new", arg |-> 0, before |-> 0, wasPaused |-> FALSE,
               result |-> 0, threw |-> FALSE]
    /\ calls = <<NewCall(EventsTimer, FALSE), StartCall(EventsTimer)>>
    /\ hist = <<>>


\* What the latest call on the Clock was: its name, its argument, the value of
\* now and of paused when it was made, what it returned, whether it threw.
Call(name, arg, result, threw) ==
    [name |-> name, arg |-> arg, before |-> now, wasPaused |-> paused,
     result |-> result, threw |-> threw]

\* ------------------------------------------------------------ create
\* Variant of AutoDestroyOf: an omitted argument counts as false.
AutoDestroyDefaultFalse(arg) == arg = "true"

\* typeof autoDestroy === 'undefined' ? true : autoDestroy
AutoDestroyOf(arg) == IF arg = "undefined" THEN TRUE ELSE arg = "true"

\* Variant of CreateIn: this.events is pushed in place of the new timer.
CreateInPushingEvents(c, arg) ==
    LET timer == NextHandle(c.heap)
    IN  [c EXCEPT !.heap = [c.heap EXCEPT ![timer] = NewTimer],
                  !.calls = Append(c.calls, NewCall(timer, AutoDestroyOf(arg))),
                  !.timers = Append(c.timers, c.events)]

\* this._timers.push(timer), on the clock's fields c
CreateIn(c, arg) ==
    LET timer == NextHandle(c.heap)
    IN  [c EXCEPT !.heap = [c.heap EXCEPT ![timer] = NewTimer],
                  !.calls = Append(c.calls, NewCall(timer, AutoDestroyOf(arg))),
                  !.timers = Append(c.timers, timer)]

\* ------------------------------------------------------------ removeAll
\* Variant of DestroyFrom: the loop stops one entry short.
RECURSIVE DestroyFromShort(_, _)
DestroyFromShort(c, i) ==
    IF i < Len(c.timers) - 1
    THEN LET t == c.timers[i + 1]
         IN  DestroyFromShort([c EXCEPT !.heap = Destroyed(c.heap, t),
                                        !.calls = Append(c.calls, DestroyCall(t))], i + 1)
    ELSE c

\* for (i = 0; i < this._timers.length; i++) this._timers[i].destroy()
RECURSIVE DestroyFrom(_, _)
DestroyFrom(c, i) ==
    IF i < Len(c.timers)
    THEN LET t == c.timers[i + 1]
         IN  DestroyFrom([c EXCEPT !.heap = Destroyed(c.heap, t),
                                   !.calls = Append(c.calls, DestroyCall(t))], i + 1)
    ELSE c

\* Variants of RemoveAllIn: the array is not replaced by an empty one; the
\* built-in timer is destroyed like the others.
RemoveAllKeepList(c) ==
    LET d == DestroyFrom(c, 0)
    IN  [d EXCEPT !.calls = Append(d.calls, RemoveAllCall(c.events))]

RemoveAllDestroyingEvents(c) ==
    LET d == DestroyFrom(c, 0)
    IN  [d EXCEPT !.timers = <<>>,
                  !.heap = Destroyed(d.heap, c.events),
                  !.calls = Append(d.calls, DestroyCall(c.events))]

\* the loop, then this._timers = [] and this.events.removeAll()
RemoveAllIn(c) ==
    LET d == DestroyFrom(c, 0)
    IN  [d EXCEPT !.timers = <<>>,
                  !.calls = Append(d.calls, RemoveAllCall(c.events))]

\* ------------------------------------------------------------ reset
\* Variant of ResetIn: now is left as it is.
ResetKeepNow(c) == RemoveAllIn(c)

\* this.now = 0; this.removeAll()
ResetIn(c) == RemoveAllIn([c EXCEPT !.now = 0, !.hist = <<>>])

\* ------------------------------------------------------------ update
\* Variants of Advance: "=" written for "+=", and the scale left out.
AdvanceOverwrite(n, elapsed, scale) == elapsed * scale
AdvanceUnscaled(n, elapsed, scale) == n + elapsed
\* Variant of Advance: "-=" written for "+=".
AdvanceBackwards(n, elapsed, scale) == n - elapsed * scale

\* this.now += elapsed * this.timeScale
Advance(n, elapsed, scale) == n + elapsed * scale

\* Variant of Splice: splice(i + 1, 1) removes the entry after the one meant.
SpliceNext(s, i) ==
    IF i + 1 < Len(s) THEN SubSeq(s, 1, i + 1) \o SubSeq(s, i + 3, Len(s)) ELSE s

\* Array.prototype.splice(i, 1), i counted from 0: nothing to remove past the end.
Splice(s, i) ==
    IF i < Len(s) THEN SubSeq(s, 1, i) \o SubSeq(s, i + 2, Len(s)) ELSE s

\* What a timer's update() does to the Clock that owns it before it returns.
Reentry(c, what) ==
    CASE what = "create" -> CreateIn(c, "undefined")
      [] what = "removeAll" -> RemoveAllIn(c)
      [] what = "reset" -> ResetIn(c)
      [] OTHER -> c

\* Variants of ScanStep: the cursor also advances after a removal; the
\* finished entry is not spliced out.
ScanStepSkip(c, ret, cb) ==
    LET t == c.timers[c.i + 1]
        called == [c EXCEPT !.calls = Append(c.calls, UpdateCall(t, ret[t]))]
        back == Reentry(called, cb[t])
        done == [back EXCEPT !.heap = Updated(back.heap, t, ret[t])]
    IN  IF ret[t]
        THEN [done EXCEPT !.i = done.i + 1]
        ELSE [done EXCEPT !.timers = Splice(done.timers, done.i),
                          !.len = done.len - 1, !.i = done.i + 1]

ScanStepNoSplice(c, ret, cb) ==
    LET t == c.timers[c.i + 1]
        called == [c EXCEPT !.calls = Append(c.calls, UpdateCall(t, ret[t]))]
        back == Reentry(called, cb[t])
        done == [back EXCEPT !.heap = Updated(back.heap, t, ret[t])]
    IN  IF ret[t]
        THEN [done EXCEPT !.i = done.i + 1]
        ELSE [done EXCEPT !.len = done.len - 1]

\* Variant of ScanStep: this._len is read again from the array after the call.
ScanStepRereadingLength(c, ret, cb) ==
    LET t == c.timers[c.i + 1]
        called == [c EXCEPT !.calls = Append(c.calls, UpdateCall(t, ret[t]))]
        back == Reentry(called, cb[t])
        done == [back EXCEPT !.heap = Updated(back.heap, t, ret[t])]
    IN  IF ret[t]
        THEN [done EXCEPT !.i = done.i + 1, !.len = Len(done.timers)]
        ELSE [done EXCEPT !.timers = Splice(done.timers, done.i),
                          !.len = Len(Splice(done.timers, done.i))]

\* One turn of the while loop: this._timers[this._i].update(), then either
\* this._i++ or this._timers.splice(this._i, 1) and this._len--.
ScanStep(c, ret, cb) ==
    LET t == c.timers[c.i + 1]
        called == [c EXCEPT !.calls = Append(c.calls, UpdateCall(t, ret[t]))]
        back == Reentry(called, cb[t])
        done == [back EXCEPT !.heap = Updated(back.heap, t, ret[t])]
    IN  IF ret[t]
        THEN [done EXCEPT !.i = done.i + 1]
        ELSE [done EXCEPT !.timers = Splice(done.timers, done.i), !.len = done.len - 1]

\* while (this._i < this._len): reading this._timers[this._i] past the end of
\* the array gives undefined, and calling update on it throws a TypeError.
RECURSIVE Scan(_, _, _)
Scan(c, ret, cb) ==
    IF c.i < c.len
    THEN IF c.i < Len(c.timers)
         THEN Scan(ScanStep(c, ret, cb), ret, cb)
         ELSE [c EXCEPT !.threw = TRUE]
    ELSE c

\* The Clock's fields as one record, for the operators above.
Fields ==
    [now |-> now, timers |-> _timers, i |-> _i, len |-> _len, heap |-> heap,
     events |-> events, calls |-> <<>>, hist |-> hist, threw |-> FALSE,
     seen |-> <<>>]

\* Variant of Tick: this.events.update() is called before now is advanced.
TickEventsFirst(elapsed, evRet, ret, cb) ==
    LET c0 == Reentry([Fields EXCEPT !.seen = <<now>>,
                                     !.calls = <<UpdateCall(events, evRet)>>],
                      cb[events])
        c1 == [c0 EXCEPT !.now = Advance(c0.now, elapsed, timeScale),
                         !.hist = Append(c0.hist, <<elapsed, timeScale>>)]
    IN  Scan([c1 EXCEPT !.i = 0, !.len = Len(c1.timers)], ret, cb)

\* The body of update when paused is false, with the values the timers return
\* (evRet for this.events, ret for the others) and what they call back (cb):
\* now is advanced, this.events.update() is called, then the scan runs.
Tick(elapsed, evRet, ret, cb) ==
    LET c0 == [Fields EXCEPT !.now = Advance(now, elapsed, timeScale),
                             !.hist = Append(hist, <<elapsed, timeScale>>)]
        c1 == Reentry([c0 EXCEPT !.seen = <<c0.now>>,
                                 !.calls = <<UpdateCall(events, evRet)>>],
                      cb[events])
    IN  Scan([c1 EXCEPT !.i = 0, !.len = Len(c1.timers)], ret, cb)

\* The timers that create() made while a managed timer's update() was running:
\* the new Phaser.Timer follows that timer's update call in the log.
CreatedInScan(log) ==
    {log[j][2] : j \in {k \in 2 .. Len(log) :
                          /\ log[k][1] = "new"
                          /\ log[k - 1][1] = "update"
                          /\ log[k - 1][2] # events}}
\* The timers whose update() was called.
CalledInUpdate(log) == {log[j][2] : j \in {k \in 1 .. Len(log) : log[k][1] = "update"}}

\* The fields of the record c become the next state.
Store(c) ==
    /\ fresh' = (fresh \cup CreatedInScan(c.calls)) \ CalledInUpdate(c.calls)
    /\ now' = c.now
    /\ _timers' = c.timers
    /\ _i' = c.i
    /\ _len' = c.len
    /\ heap' = c.heap
    /\ seen' = c.seen
    /\ calls' = c.calls
    /\ hist' = c.hist
    /\ events' = c.events

\* No timer's update() calls back into the Clock.
NoReentry == [t \in Handles |-> "none"]

\* ------------------------------------------------------------ operations
Create(arg) ==
    /\ NextHandle(heap) \in Managed
    /\ Store(CreateIn(Fields, arg))
    /\ last' = Call("create", arg, NextHandle(heap), FALSE)
    /\ UNCHANGED <<timeScale, paused>>

RemoveAll ==
    /\ Store(RemoveAllIn(Fields))
    /\ last' = Call("removeAll", 0, 0, FALSE)
    /\ UNCHANGED <<timeScale, paused>>

\* Variant of Update: the paused flag is not looked at.
UpdateIgnoringPaused(elapsed) ==
    /\ Len(hist) < MaxTicks
    /\ \E evRet \in BOOLEAN, ret \in [Managed -> BOOLEAN] :
           /\ \A t \in Managed : (\A k \in 1 .. Len(_timers) : _timers[k] # t) => ret[t]
           /\ \E c \in {Tick(elapsed, evRet, ret, NoReentry)} :
                 /\ Store(c)
                 /\ last' = Call("update", elapsed, 0, c.threw)
    /\ UNCHANGED <<timeScale, paused>>

\* update(elapsed) with timers that do not call back into the Clock
Update(elapsed) ==
    /\ paused \/ Len(hist) < MaxTicks
    /\ IF paused
       THEN /\ Store(Fields)
            /\ last' = Call("update", elapsed, 0, FALSE)
       ELSE \E evRet \in BOOLEAN, ret \in [Managed -> BOOLEAN] :
                /\ \A t \in Managed : (\A k \in 1 .. Len(_timers) : _timers[k] # t) => ret[t]
                /\ \E c \in {Tick(elapsed, evRet, ret, NoReentry)} :
                      /\ Store(c)
                      /\ last' = Call("update", elapsed, 0, c.threw)
    /\ UNCHANGED <<timeScale, paused>>

\* Variant of ElapsedSince: the operands of the subtraction are swapped.
ElapsedSinceReversed(since) ==
    /\ last' = Call("elapsedSince", since, since - now, FALSE)
    /\ calls' = <<>>
    /\ seen' = <<>>
    /\ UNCHANGED fresh
    /\ UNCHANGED <<now, timeScale, paused, events, _timers, _i, _len, heap, hist>>

\* return this.now - since
ElapsedSince(since) ==
    /\ last' = Call("elapsedSince", since, now - since, FALSE)
    /\ calls' = <<>>
    /\ seen' = <<>>
    /\ UNCHANGED fresh
    /\ UNCHANGED <<now, timeScale, paused, events, _timers, _i, _len, heap, hist>>

Reset ==
    /\ Store(ResetIn(Fields))
    /\ last' = Call("reset", 0, 0, FALSE)
    /\ UNCHANGED <<timeScale, paused>>

\* The owner writes the public fields timeScale and paused.
SetTimeScale(scale) ==
    /\ scale # timeScale
    /\ timeScale' = scale
    /\ last' = Call("timeScale", scale, 0, FALSE)
    /\ calls' = <<>>
    /\ seen' = <<>>
    /\ UNCHANGED fresh
    /\ UNCHANGED <<now, paused, events, _timers, _i, _len, heap, hist>>

SetPaused(flag) ==
    /\ flag # paused
    /\ paused' = flag
    /\ last' = Call("paused", flag, 0, FALSE)
    /\ calls' = <<>>
    /\ seen' = <<>>
    /\ UNCHANGED fresh
    /\ UNCHANGED <<now, timeScale, events, _timers, _i, _len, heap, hist>>

Next ==
    \/ \E arg \in AutoDestroyArgs : Create(arg)
    \/ RemoveAll
    \/ \E elapsed \in Elapsed : Update(elapsed)
    \/ \E since \in {now, now - 5} : ElapsedSince(since)
    \/ Reset
    \/ \E scale \in TimeScales : SetTimeScale(scale)
    \/ \E flag \in BOOLEAN : SetPaused(flag)

Spec == Init /\ [][Next]_vars

\* ------------------------------------------------------------ re-entry
\* What a timer's update() may call on the Clock that owns it.
Callbacks == {"none", "create", "removeAll", "reset"}
\* How many timers call back into the Clock during one update.
MaxCallbacks == 2
\* The elapsed value of a frame in the runs with timers that call back (what
\* the timers do does not depend on it).
Frame == {16}

\* update(elapsed) on an unpaused clock where the update() of some timers,
\* the built-in one or those in _timers, calls create(), removeAll() or
\* reset() on the Clock before it returns.
UpdateReentrant(elapsed) ==
    /\ ~paused
    /\ Len(hist) < MaxTicks
    /\ \E callers \in SUBSET ({events} \cup {_timers[k] : k \in 1 .. Len(_timers)}) :
         /\ callers # {}
         /\ Cardinality(callers) <= MaxCallbacks
         /\ \E what \in [callers -> Callbacks \ {"none"}] :
              /\ Cardinality({t \in callers : what[t] = "create"})
                    <= Cardinality({t \in Managed : heap[t] = "none"})
              /\ \E evRet \in BOOLEAN, ret \in [Managed -> BOOLEAN] :
                    /\ \A t \in Managed :
                          \/ ret[t]
                          \/ \E k \in 1 .. Len(_timers) : _timers[k] = t
                          \/ heap[t] = "none" /\ \E u \in callers : what[u] = "create"
                    /\ \E c \in {Tick(elapsed, evRet, ret,
                                       [t \in Handles |-> IF t \in callers THEN what[t]
                                                                          ELSE "none"])} :
                          \* each input is used: a timer that is never reached
                          \* neither returns false nor calls back
                          /\ \A t \in Managed :
                                ~ret[t] => \E k \in 1 .. Len(c.calls) : c.calls[k] = UpdateCall(t, FALSE)
                          /\ \A t \in callers :
                                \E k \in 1 .. Len(c.calls) : c.calls[k] = UpdateCall(t, IF t = events THEN evRet ELSE ret[t])
                          /\ Store(c)
                          /\ last' = Call("update", elapsed, 0, c.threw)
    /\ UNCHANGED <<timeScale, paused>>

\* The operations that read or write _timers, with timers that may call back;
\* timeScale keeps the value the constructor gave it.
NextReentrant ==
    \/ \E arg \in AutoDestroyArgs : Create(arg)
    \/ RemoveAll
    \/ \E elapsed \in Frame : Update(elapsed)
    \/ \E elapsed \in Frame : UpdateReentrant(elapsed)
    \/ Reset
    \/ \E flag \in BOOLEAN : SetPaused(flag)

SpecReentrant == Init /\ [][NextReentrant]_vars


\* ============================================================ properties
\* Helpers for reading the call log.
Range(s) == {s[k] : k \in 1 .. Len(s)}
Count(log, x) == Cardinality({k \in 1 .. Len(log) : log[k] = x})
IsUpdateCall(c) == c[1] = "update"
IsDestroyCall(c) == c[1] = "destroy"
\* The handles update() was called on, in call order.
UpdatedHandles(log) ==
    LET sel == SelectSeq(log, IsUpdateCall)
    IN  [k \in 1 .. Len(sel) |-> sel[k][2]]
\* The handles destroy() was called on, in call order.
DestroyedHandles(log) ==
    LET sel == SelectSeq(log, IsDestroyCall)
    IN  [k \in 1 .. Len(sel) |-> sel[k][2]]

RECURSIVE SumScaled(_)
SumScaled(h) == IF h = <<>> THEN 0 ELSE h[1][1] * h[1][2] + SumScaled(Tail(h))
RECURSIVE SumElapsed(_)
SumElapsed(h) == IF h = <<>> THEN 0 ELSE h[1][1] + SumElapsed(Tail(h))

\* The step just taken was update(elapsed) on a clock that was / was not paused.
UnpausedUpdateStep == last'.name = "update" /\ ~paused
PausedUpdateStep == last'.name = "update" /\ paused

\* ------------------------------------------------------------ C1
\* C1: after any run of update calls made while paused is false since now was
\* 0, now is the sum of elapsed * timeScale over those calls (timeScale read at
\* each call); with timeScale 1 throughout it is the plain sum of the elapsed
\* values, and a call made with timeScale 2 adds twice its elapsed value.
C1_NowIsScaledSum ==
    /\ now = SumScaled(hist)
    /\ (\A k \in 1 .. Len(hist) : hist[k][2] = 1) => now = SumElapsed(hist)
    /\ (last.name = "update" /\ ~last.wasPaused /\ timeScale = 2)
          => now - last.before = 2 * last.arg

\* Three unpaused updates, the first with timeScale 1 and the others with 2.
C1_Witness ==
    /\ last.name = "update" /\ ~last.wasPaused
    /\ hist = << <<16, 1>>, <<5, 2>>, <<16, 2>> >>
    /\ now = 58

\* ------------------------------------------------------------ C2
\* C2: update(elapsed) on a paused clock changes nothing: now and _timers
\* stay as they are and no timer, built-in or managed, receives a call.
C2_PausedUpdateNoOp ==
    [][PausedUpdateStep =>
          /\ now' = now
          /\ _timers' = _timers
          /\ calls' = <<>>
          /\ heap' = heap
          /\ UNCHANGED <<timeScale, paused, events, _i, _len, hist>>]_vars

\* A paused update on a clock that holds two timers and has already advanced.
C2_Witness ==
    /\ last.name = "update" /\ last.wasPaused
    /\ Len(_timers) >= 2
    /\ now > 0

\* ------------------------------------------------------------ C3
\* C3 as stated: now changes only inside update, only when paused is false,
\* and only by elapsed * timeScale.
C3_NowChangesOnlyInUpdate ==
    [][now' # now =>
          /\ UnpausedUpdateStep
          /\ now' = now + last'.arg * timeScale]_vars

\* C3 amended: now changes only inside an unpaused update, by elapsed *
\* timeScale, or inside reset, which sets it to 0.
C3_NowChangesOnlyInUpdateOrReset ==
    [][now' # now =>
          \/ /\ UnpausedUpdateStep
             /\ now' = now + last'.arg * timeScale
          \/ /\ last'.name = "reset"
             /\ now' = 0]_vars

\* reset() has just taken now from a positive value back to 0.
C3_Witness ==
    /\ last.name = "reset"
    /\ last.before > 0
    /\ now = 0


\* ------------------------------------------------------------ C4
\* C4: an unpaused update calls update() exactly once on every timer that is
\* in _timers when it starts, in the order of _timers: after the one call on
\* the built-in timer, the handles called are exactly _timers as it was.
C4_EachManagedTimerUpdatedOnceInOrder ==
    [][UnpausedUpdateStep =>
          /\ Tail(UpdatedHandles(calls')) = _timers
          /\ \A t \in Range(_timers) : Count(UpdatedHandles(calls'), t) = 1]_vars

\* The first of three timers finished and was removed; the two that moved
\* left were still visited in the same pass.
C4_Witness ==
    /\ last.name = "update" /\ ~last.wasPaused
    /\ UpdatedHandles(calls) = <<EventsTimer, 1, 2, 3>>
    /\ UpdateCall(1, FALSE) \in Range(calls)
    /\ _timers = <<2, 3>>

\* ------------------------------------------------------------ C5
\* C5: after an unpaused update, _timers is its former value restricted to
\* the timers whose update() returned true, in the same order; no timer that
\* returned false remains.
C5_SurvivorsAreThoseReturningTrue ==
    [][UnpausedUpdateStep =>
          LET Alive(t) == UpdateCall(t, TRUE) \in Range(calls')
          IN  /\ _timers' = SelectSeq(_timers, Alive)
              /\ \A t \in Range(_timers') : UpdateCall(t, FALSE) \notin Range(calls')]_vars

\* Of three timers the middle one returned false: the outer two remain, in order.
C5_Witness ==
    /\ last.name = "update" /\ ~last.wasPaused
    /\ calls = <<UpdateCall(EventsTimer, TRUE), UpdateCall(1, TRUE),
                 UpdateCall(2, FALSE), UpdateCall(3, TRUE)>>
    /\ _timers = <<1, 3>>

C7_RemoveAllDestroysEachOnce ==
    [][last'.name = "removeAll" =>
          /\ _timers' = <<>>
          /\ \A t \in Handles :
                Count(calls', DestroyCall(t)) = IF t \in Range(_timers) THEN 1 ELSE 0
          /\ Len(DestroyedHandles(calls')) = Len(_timers)]_vars

\* removeAll() on a paused clock that held three timers.
C7_Witness ==
    /\ last.name = "removeAll" /\ last.wasPaused
    /\ Len(DestroyedHandles(calls)) = 3
    /\ _timers = <<>>

\* ------------------------------------------------------------ C8
\* C8: once removeAll() or reset() has returned, the timers that were in
\* _timers are never updated by the Clock again, and _timers has length 0
\* right after the call.
C8_RemovedTimersNeverUpdatedAgain ==
    [][/\ \A t \in Range(UpdatedHandles(calls')) : heap[t] # "destroyed"
       /\ last'.name \in {"removeAll", "reset"} =>
             /\ Len(_timers') = 0
             /\ \A t \in Range(_timers) : heap'[t] = "destroyed"]_vars

\* An unpaused update reaches a timer created after removeAll() destroyed
\* an earlier one.
C8_Witness ==
    /\ last.name = "update" /\ ~last.wasPaused
    /\ heap[1] = "destroyed"
    /\ UpdatedHandles(calls) = <<EventsTimer, 2>>

\* ------------------------------------------------------------ C9
\* C9: reset() sets now to 0, destroys every managed timer, empties _timers,
\* sends removeAll to the built-in timer, and leaves timeScale and paused alone.
C9_ResetZeroesNowAndRemovesAll ==
    [][last'.name = "reset" =>
          /\ now' = 0
          /\ _timers' = <<>>
          /\ calls' = [k \in 1 .. Len(_timers) |-> DestroyCall(_timers[k])]
                         \o <<RemoveAllCall(events)>>
          /\ heap' = [t \in Handles |->
                         IF t \in Range(_timers) THEN "destroyed" ELSE heap[t]]
          /\ timeScale' = timeScale
          /\ paused' = paused
          /\ events' = events]_vars

\* reset() after updates had taken now to 48 (as three update(16) calls do),
\* with two timers to destroy and timeScale and paused away from their defaults.
C9_Witness ==
    /\ last.name = "reset"
    /\ last.before = 48
    /\ now = 0 /\ Len(_timers) = 0
    /\ DestroyedHandles(calls) = <<1, 2>>
    /\ timeScale = 2 /\ paused

\* ------------------------------------------------------------ C10
\* C10: events always refers to the timer made by the constructor; no
\* operation destroys it; removeAll and reset send it one removeAll request,
\* and every unpaused update still sends it one update.
C10_EventsTimerKept ==
    /\ events = EventsTimer
    /\ heap[events] = "live"
    /\ DestroyCall(events) \notin Range(calls)
    /\ last.name \in {"removeAll", "reset"} => Count(calls, RemoveAllCall(events)) = 1
    /\ (last.name = "update" /\ ~last.wasPaused) => Count(UpdatedHandles(calls), events) = 1

\* The built-in timer is updated on a tick that follows a removeAll().
C10_Witness ==
    /\ last.name = "update" /\ ~last.wasPaused
    /\ calls[1] = UpdateCall(events, FALSE)
    /\ \E t \in Managed : heap[t] = "destroyed"

\* ------------------------------------------------------------ C11
\* C11: create(autoDestroy) makes one new timer, appends it at the end of
\* _timers and returns it: the former entries keep their places, now,
\* timeScale, paused and events are unchanged, and the timer is made with
\* autoDestroy true when the argument is omitted.
C11_CreateAppendsOneNewTimer ==
    [][last'.name = "create" =>
          LET timer == last'.result
          IN  /\ heap[timer] = "none" /\ heap'[timer] = "live"
              /\ \A t \in Handles \ {timer} : heap'[t] = heap[t]
              /\ _timers' = Append(_timers, timer)
              /\ Len(_timers') = Len(_timers) + 1
              /\ \A k \in 1 .. Len(_timers) : _timers'[k] = _timers[k]
              /\ UNCHANGED <<now, timeScale, paused, events>>
              /\ last'.arg = "undefined" => calls' = <<NewCall(timer, TRUE)>>
              /\ last'.arg = "true" => calls' = <<NewCall(timer, TRUE)>>
              /\ last'.arg = "false" => calls' = <<NewCall(timer, FALSE)>>]_vars

\* create() without an argument on a paused clock that already held two timers.
C11_Witness ==
    /\ last.name = "create" /\ last.arg = "undefined" /\ last.result = 3
    /\ _timers = <<1, 2, 3>>
    /\ calls = <<NewCall(3, TRUE)>>
    /\ paused /\ now > 0

\* ------------------------------------------------------------ C12
\* C12 as stated: now starts at 0 and never decreases across any operation
\* made while paused is false.
C12_NowNeverDecreasesWhileUnpaused ==
    /\ now = 0
    /\ [][~paused => now' >= now]_vars

\* C12 amended: now starts at 0 and, with elapsed * timeScale >= 0 in every
\* update, no operation lowers it except reset(), which sets it to 0.
C12_OnlyResetLowersNow ==
    /\ now = 0
    /\ [][now' < now => (last'.name = "reset" /\ now' = 0)]_vars

\* reset() on an unpaused clock has just lowered now to 0 after updates had
\* raised it.
C12_Witness ==
    /\ last.name = "reset" /\ ~last.wasPaused
    /\ last.before > 16
    /\ now = 0

\* ------------------------------------------------------------ C13
\* C13: elapsedSince(since) returns now - since and changes no field of the
\* Clock and calls no timer, paused or not; so elapsedSince(now) is 0 and
\* elapsedSince(now - 5) is 5.
C13_ElapsedSinceIsPureDifference ==
    [][last'.name = "elapsedSince" =>
          /\ last'.result + last'.arg = now
          /\ last'.arg = now => last'.result = 0
          /\ last'.arg = now - 5 => last'.result = 5
          /\ UNCHANGED <<now, timeScale, paused, events, _timers, _i, _len, heap>>
          /\ calls' = <<>>]_vars

\* elapsedSince(now - 5) returned 5 on a paused clock at now = 48 that holds timers.
C13_Witness ==
    /\ last.name = "elapsedSince" /\ last.wasPaused
    /\ now = 48 /\ last.arg = 43 /\ last.result = 5
    /\ Len(_timers) > 0

\* ------------------------------------------------------------ C14
\* C14: an unpaused update calls update() on the built-in timer exactly once,
\* after now has been advanced and before any managed timer is called, and
\* ignores what it returns: the built-in timer stays referenced by events,
\* stays out of _timers and is not marked finished or destroyed.
C14_EventsTimerUpdatedOnceFirst ==
    (last.name = "update" /\ ~last.wasPaused) =>
        /\ Count(UpdatedHandles(calls), events) = 1
        /\ calls[1] \in {UpdateCall(events, TRUE), UpdateCall(events, FALSE)}
        /\ seen = <<last.before + last.arg * timeScale>>
        /\ events = EventsTimer
        /\ heap[events] = "live"
        /\ events \notin Range(_timers)

\* On a later tick the built-in timer returned false before two managed
\* timers were called, and it had been called on earlier ticks as well.
C14_Witness ==
    /\ last.name = "update" /\ ~last.wasPaused
    /\ Len(hist) = 3
    /\ calls = <<UpdateCall(events, FALSE), UpdateCall(1, TRUE), UpdateCall(2, TRUE)>>
    /\ seen = <<now>> /\ now > last.before

\* ------------------------------------------------------------ C15
\* C15: _timers holds pairwise distinct handles and never the built-in
\* timer, so no timer receives more than one update() call from one call of
\* the Clock's update -- also when timers call back into the Clock.
C15_NoTimerUpdatedTwice ==
    /\ \A j, k \in 1 .. Len(_timers) : j # k => _timers[j] # _timers[k]
    /\ events \notin Range(_timers)
    /\ last.name = "update" =>
          \A t \in Handles : Count(UpdatedHandles(calls), t) <= 1

\* An update in which a timer called create(): three distinct handles are
\* held and each timer that was called was called once.
C15_Witness ==
    /\ last.name = "update"
    /\ NewCall(3, TRUE) \in Range(calls)
    /\ _timers = <<1, 2, 3>>
    /\ UpdatedHandles(calls) = <<EventsTimer, 1, 2>>

\* ------------------------------------------------------------ C16
\* C16: during the scan every read of this._timers[this._i] finds an entry,
\* also when a timer's update() calls create(), removeAll() or reset() on the
\* Clock in the middle of the pass: update never throws on a missing entry.
C16_ScanNeverReadsPastTheEnd ==
    last.name = "update" => ~last.threw

\* ------------------------------------------------------------ C17
\* Entry j of the log is a new Phaser.Timer made by create() from the update()
\* of a managed timer.
IsScanCreate(log, j) ==
    /\ j > 1
    /\ log[j][1] = "new"
    /\ log[j - 1][1] = "update"
    /\ log[j - 1][2] # events
\* removeAll() or reset() ran after entry j of the log / at all.
RemovedAllAfter(log, j) == \E k \in j + 1 .. Len(log) : log[k][1] = "removeAll"
RemovedAllIn(log) == \E k \in 1 .. Len(log) : log[k][1] = "removeAll"

====
